---- MODULE Spec2Model ----
(***************************************************************************)
(* Tokensa local server: a Fastify gateway in front of a local Ollama      *)
(* model.  The repository holds several revisions of the same files; the   *)
(* model carries the revision as the variable `version`:                   *)
(*   "stream1"  index.ts 1-176 (streaming route) with the streamGenerate   *)
(*              of unnamed/part_003 (chat opened outside any try)          *)
(*   "stream2"  index.ts 1-176 with the streamGenerate of llm.ts 142-195   *)
(*   "json1"    index.ts 178-424 (JSON route) with the plain-text          *)
(*              generateOnce of llm.ts 197-229                             *)
(*   "json2"    index.ts 178-424 with the generateOnce of llm.ts 49-104    *)
(* Strings the code inspects (origins, model replies) are sequences of     *)
(* tokens; the empty sequence stands for both the absent and the empty     *)
(* string, which the code's truthiness tests do not distinguish.           *)
(***************************************************************************)
EXTENDS Naturals, Integers, Sequences, FiniteSets, TLC

VARIABLES version, pc, req, resp, llm

vars == <<version, pc, req, resp, llm>>

\* ------------------------------------------------------------------ bounds
\* Largest number of chunks the model stream delivers in one request.
MaxChunks == 3

\* Largest number of chunks per stream when two requests are in flight.
MaxConcChunks == 2

\* Request slots of the server: one request at a time goes through slot 1;
\* slot 2 serves the second of two concurrent requests.
Reqs == {1, 2}

Main == {1}

Versions == {"stream1", "stream2", "json1", "json2"}

IsStreaming(v) == v \in {"stream1", "stream2"}

\* ---------------------------------------------------------------- strings
Absent == << >>

Truthy(s) == Len(s) > 0

EndsWith(s, suffix) ==
  /\ Len(s) >= Len(suffix)
  /\ SubSeq(s, Len(s) - Len(suffix) + 1, Len(s)) = suffix

\* ASCII lower-casing of a host label, as the URL host parser applies it.
LowerToken(t) ==
  CASE t = "TOKENSA" -> "tokensa"
    [] t = "COM" -> "com"
    [] OTHER -> t

LowerCase(s) == [i \in 1..Len(s) |-> LowerToken(s[i])]

\* ----------------------------------------------------------------- origins
ORIGIN == <<"https", "://", "tokensa", ".", "com">>

BASE_DOMAIN == <<"tokensa", ".", "com">>

ALLOWED_ORIGINS ==
  { <<"https", "://", "tokensa", ".", "com">>,
    <<"https", "://", "www", ".", "tokensa", ".", "com">>,
    <<"http", "://", "127.0.0.1", ":", "5500">>,
    <<"http", "://", "localhost", ":", "5500">> }

\* Index of the first occurrence of token t in s at or after position i,
\* Len(s) + 1 when there is none.
RECURSIVE IndexFrom(_, _, _)
IndexFrom(s, t, i) ==
  IF i > Len(s) THEN Len(s) + 1
  ELSE IF s[i] = t THEN i
  ELSE IndexFrom(s, t, i + 1)

\* new URL(origin): a scheme, "://", a non-empty host, an optional ":port".
\* The result carries ok = FALSE where the constructor throws TypeError.
URL(origin) ==
  LET hasScheme == Len(origin) >= 3 /\ origin[2] = "://" /\ origin[1] \notin {"://", ":", "."}
      stop == IndexFrom(origin, ":", 3)
      host == IF hasScheme THEN SubSeq(origin, 3, stop - 1) ELSE << >>
  IN  [ok |-> hasScheme /\ Len(host) > 0, hostname |-> LowerCase(host)]

\* The base domain matched anywhere in the host name instead of at its end.
isAllowedOrigin_Includes(origin) ==
  IF ~Truthy(origin) THEN TRUE
  ELSE IF origin \in ALLOWED_ORIGINS THEN TRUE
  ELSE LET url == URL(origin)
       IN  /\ url.ok
           /\ \E i \in 1..Len(url.hostname) :
                 \E j \in i..Len(url.hostname) :
                   SubSeq(url.hostname, i, j) = BASE_DOMAIN

isAllowedOrigin(origin) ==
  IF ~Truthy(origin) THEN TRUE
  ELSE IF origin \in ALLOWED_ORIGINS THEN TRUE
  ELSE LET url == URL(origin)
       IN  /\ url.ok
           /\ \/ url.hostname = BASE_DOMAIN
              \/ EndsWith(url.hostname, <<".">> \o BASE_DOMAIN)

resolveAllowOrigin_Reflect(origin) ==
  IF Truthy(origin) THEN origin ELSE ORIGIN

resolveAllowOrigin(origin) ==
  IF Truthy(origin) /\ isAllowedOrigin(origin) THEN origin ELSE ORIGIN

\* Origin header values the requests are drawn from.
Origins ==
  ALLOWED_ORIGINS \cup
  { Absent,
    <<"https", "://", "app", ".", "tokensa", ".", "com">>,
    <<"http", "://", "tokensa", ".", "com", ":", "8080">>,
    <<"https", "://", "TOKENSA", ".", "COM">>,
    <<"https", "://", "evil", ".", "com">>,
    <<"https", "://", "eviltokensa", ".", "com">>,
    <<"https", "://", "tokensa", ".", "com", ".", "evil", ".", "com">>,
    <<"http", "://", "localhost", ":", "3000">>,
    <<"tokensa", ".", "com">>,
    <<"null">> }

\* ------------------------------------------------------------ JSON values
\* A scalar of a parsed JSON body: its type tag, and its value in n (numbers,
\* booleans as 0/1) or s (strings).
Undef == [t |-> "undefined", n |-> 0, s |-> ""]

Num(n) == [t |-> "number", n |-> n, s |-> ""]

Str(s) == [t |-> "string", n |-> 0, s |-> s]

Bool(b) == [t |-> "boolean", n |-> IF b THEN 1 ELSE 0, s |-> ""]

\* The value of the tags key: an array of scalars, or something else.
Arr(items) == [t |-> "array", items |-> items]

NotArr(tag) == [t |-> tag, items |-> << >>]

Rep(x, n) == [i \in 1..n |-> x]

\* ------------------------------------------------------------- BodySchema
MIN_AGE == 2

MAX_AGE == 120

MIN_TAGS == 1

MAX_TAGS_STREAM == 6

MAX_TAGS_JSON == 20

TagEnumStream ==
  { "dyslexie",
    "dysorthographie",
    "dyspraxie",
    "dysphasie",
    "begaiement",
    "TDAH",
    "dyscalculie",
    "articulation",
    "comprehension",
    "phonologie" }

TagEnumJson ==
  { "Lecture - Décodage Confusions grapho-phonémiques",
    "Lecture - Décodage Conversion graphème-phonème incorrecte",
    "Lecture - Décodage Itérations",
    "Lecture - Décodage Omissions (lettres, syllabes)",
    "Lecture - Décodage Additions",
    "Lecture - Décodage Inversions",
    "Lecture - Décodage Segmentation inadéquate",
    "Lecture - Décodage Fusions indue",
    "Lecture - Décodage Régularisations",
    "Lecture - Lexicale Paralexies verbales",
    "Lecture - Lexicale Paralexies sémantiques",
    "Lecture - Lexicale Lexicalisations",
    "Lecture - Lexicale Paralexies visuelles",
    "Lecture - Phonologique Omission (phonèmes)",
    "Lecture - Phonologique Ajout (phonèmes)",
    "Lecture - Phonologique Substitution (voisement, articulation)",
    "Lecture - Phonologique Inversion séquentielle",
    "Lecture - Fluence Lecture hachée",
    "Lecture - Fluence Lenteur excessive",
    "Lecture - Fluence Erreurs prosodiques",
    "Lecture - Compréhension Erreurs littérales",
    "Lecture - Compréhension Erreurs inférentielles",
    "Lecture - Compréhension Confusion des anaphores",
    "Lecture - Compréhension Interprétations incohérentes",
    "Écriture - Phonologique Omissions de phonèmes",
    "Écriture - Phonologique Additions de phonèmes",
    "Écriture - Phonologique Substitutions phonologiques",
    "Écriture - Phonologique Inversions",
    "Écriture - Phonologique Segmentation fautive",
    "Écriture - Lexicale Erreurs d'usage",
    "Écriture - Lexicale Confusion homophones lexicaux",
    "Écriture - Lexicale Erreurs lettres muettes",
    "Écriture - Lexicale Erreurs morphèmes dérivationnels",
    "Écriture - Grammaire Accords nom-adjectif",
    "Écriture - Grammaire Accords sujet-verbe",
    "Écriture - Grammaire Erreurs de conjugaison",
    "Écriture - Grammaire Confusion homophones grammaticaux",
    "Écriture - Morphosyntaxe Omissions de mots grammaticaux",
    "Écriture - Morphosyntaxe Ordre des mots incorrect",
    "Écriture - Morphosyntaxe Structures agrammaticales",
    "Écriture - Graphomotricité Formes de lettres incorrectes",
    "Écriture - Graphomotricité Taille et espacement irréguliers",
    "Écriture - Graphomotricité Lenteur d'écriture",
    "Écriture - Graphomotricité Dysgraphie",
    "Écriture - Texte Manque de cohérence",
    "Écriture - Texte Ponctuation insuffisante",
    "Écriture - Texte Absence de connecteurs",
    "Écriture - Texte Répétitions / ruptures discursives" }

TagEnum(v) == IF IsStreaming(v) THEN TagEnumStream ELSE TagEnumJson

MaxTags(v) == IF IsStreaming(v) THEN MAX_TAGS_STREAM ELSE MAX_TAGS_JSON

\* z.number().min(2).max(120)
AgeOk(x) == x.t = "number" /\ x.n >= MIN_AGE /\ x.n <= MAX_AGE

\* z.string().optional() and z.boolean().optional()
OptionalString(x) == x.t \in {"undefined", "string"}

OptionalBoolean(x) == x.t \in {"undefined", "boolean"}

\* The array bounded by .max(n - 1).
TagsOk_MaxExclusive(v, x) ==
  /\ x.t = "array"
  /\ \A i \in 1..Len(x.items) : x.items[i].t = "string" /\ x.items[i].s \in TagEnum(v)
  /\ Len(x.items) >= MIN_TAGS
  /\ Len(x.items) < MaxTags(v)

\* z.array(z.enum([...])).min(1).max(n)
TagsOk(v, x) ==
  /\ x.t = "array"
  /\ \A i \in 1..Len(x.items) : x.items[i].t = "string" /\ x.items[i].s \in TagEnum(v)
  /\ Len(x.items) >= MIN_TAGS
  /\ Len(x.items) <= MaxTags(v)

\* The keys each revision's z.object declares besides age and tags; the keys
\* it does not declare are stripped without being looked at.
OptionalsOk(v, body) ==
  IF IsStreaming(v)
  THEN OptionalString(body.niveau)
  ELSE OptionalString(body.prenom) /\ OptionalString(body.nom) /\ OptionalBoolean(body.homme)

\* BodySchema.parse(req.body) returns (TRUE) or throws a ZodError (FALSE).
BodySchemaOk(v, body) ==
  /\ body.t = "object"
  /\ AgeOk(body.age)
  /\ OptionalsOk(v, body)
  /\ TagsOk(v, body.tags)

\* --------------------------------------------------------- request bodies
Body(age, tags, niveau, prenom, nom, homme) ==
  [t |-> "object", age |-> age, tags |-> tags, niveau |-> niveau,
   prenom |-> prenom, nom |-> nom, homme |-> homme]

NoBody ==
  [t |-> "undefined", age |-> Undef, tags |-> NotArr("undefined"), niveau |-> Undef,
   prenom |-> Undef, nom |-> Undef, homme |-> Undef]

TagS == Str("dyslexie")

TagS2 == Str("TDAH")

TagJ == Str("Lecture - Décodage Itérations")

TagJ2 == Str("Écriture - Texte Manque de cohérence")

TagValues ==
  { NotArr("undefined"), NotArr("string"),
    Arr(<< >>),
    Arr(<<TagS>>), Arr(<<TagS, TagS2>>), Arr(<<TagS, TagS>>),
    Arr(<<TagS, Str("autre")>>), Arr(<<Num(3)>>),
    Arr(Rep(TagS, MAX_TAGS_STREAM)), Arr(Rep(TagS, MAX_TAGS_STREAM + 1)),
    Arr(<<TagJ>>), Arr(<<TagJ, TagJ2>>),
    Arr(Rep(TagJ, MAX_TAGS_STREAM + 1)),
    Arr(Rep(TagJ, MAX_TAGS_JSON)), Arr(Rep(TagJ, MAX_TAGS_JSON + 1)) }

AgeValues ==
  { Undef, Str("12"), Num(MIN_AGE - 1), Num(MIN_AGE), Num(10), Num(MAX_AGE),
    Num(MAX_AGE + 1) }

OneTag == {Arr(<<TagS>>), Arr(<<TagJ>>)}

\* The bodies requests are drawn from: each key varied around a valid body.
Bodies ==
  {NoBody}
  \cup {Body(Num(10), tg, Undef, Undef, Undef, Undef) : tg \in TagValues}
  \cup {Body(a, tg, Undef, Undef, Undef, Undef) : a \in AgeValues, tg \in OneTag}
  \cup {Body(Num(10), tg, x, Undef, Undef, Undef) : x \in {Str("CE1"), Num(5)}, tg \in OneTag}
  \cup {Body(Num(10), tg, Undef, x, Undef, Undef) : x \in {Str("Ana"), Num(5)}, tg \in OneTag}
  \cup {Body(Num(10), tg, Undef, Undef, x, Undef) : x \in {Str("Roy"), Num(5)}, tg \in OneTag}
  \cup {Body(Num(10), tg, Undef, Undef, Undef, x) : x \in {Bool(TRUE), Str("oui")}, tg \in OneTag}

\* ---------------------------------------------------------------- requests
Methods == {"GET", "POST", "OPTIONS"}

Paths == {"/api/health", "/api/generate", "/autre"}

\* Access-Control-Request-Headers values of the preflight requests.
RequestHeaders == {Absent, <<"authorization">>}

NoReq ==
  [method |-> "", path |-> "", origin |-> Absent, acrh |-> Absent, body |-> NoBody]

\* ---------------------------------------------------------------- responses
HeaderNames == {"acao", "acac", "acapn", "vary", "acam", "acah", "ctype"}

NoHeaders == [h \in HeaderNames |-> Absent]

True == <<"true">>

DefaultAllowHeaders == <<"content-type, x-tokensa">>

AllowMethods == <<"POST, GET, OPTIONS">>

NoPayload ==
  [kind |-> "empty", error |-> "", ok |-> FALSE, ready |-> FALSE, text |-> << >>,
   model |-> ""]

ErrorPayload(e) == [NoPayload EXCEPT !.kind = "error", !.error = e]

HealthPayload(ok, m) ==
  [NoPayload EXCEPT !.kind = "health", !.ok = ok, !.ready = ok, !.model = m]

TextPayload(text, m) == [NoPayload EXCEPT !.kind = "text", !.text = text, !.model = m]

\* hdr: the headers set on the Fastify reply; sent, status, wire: the status
\* line and headers written to the socket; writes: the chunks written to the
\* raw response after the head; ended: how many times the response was ended.
NoResp ==
  [hdr |-> NoHeaders, hijacked |-> FALSE, sent |-> FALSE, status |-> 0,
   wire |-> NoHeaders, body |-> NoPayload, writes |-> << >>, ended |-> 0]

\* ------------------------------------------------------------------- model
Some(s) == [has |-> TRUE, val |-> s]

None == [has |-> FALSE, val |-> << >>]

\* calls: invocations of streamGenerate / generateOnce for the request;
\* prompt: the prompt built for the call; chat: the state of the chat
\* stream; chunks: what the stream delivered;
\* list: the outcome of ollama.list(); fetch: the outcome of the HTTP call.
NoFetch == [kind |-> "none", content |-> None]

NoLlm ==
  [calls |-> 0, prompt |-> << >>, chat |-> "none", chunks |-> << >>, list |-> "none",
   fetch |-> NoFetch]

Chunk(content, delta, response) ==
  [content |-> content, delta |-> delta, response |-> response]

\* Chunks the chat stream may deliver: text in message.content, an empty
\* message.content beside a response text, text in delta only.
Chunks ==
  { Chunk(Some(<<"a">>), None, None),
    Chunk(Some(<<"b">>), None, None),
    Chunk(Some(<< >>), None, Some(<<"r">>)),
    Chunk(None, Some(<<"d">>), None) }

\* chunk.message?.content ?? chunk.delta ?? chunk.response ?? ""
\* (part_003 reads message.content alone).
ChunkText(v, chunk) ==
  IF chunk.content.has THEN chunk.content.val
  ELSE IF v = "stream1" THEN << >>
  ELSE IF chunk.delta.has THEN chunk.delta.val
  ELSE IF chunk.response.has THEN chunk.response.val
  ELSE << >>

\* process.env.OLLAMA_MODEL ?? "qwen3:1.7b"
MODEL == "qwen3:1.7b"

\* The message both generators build from a caught error.
ErrorText(msg) ==
  <<"Erreur de génération: ", msg, ". Vérifiez qu'Ollama tourne et que le modèle \"",
    MODEL, "\" est disponible (ollama pull ", MODEL, ").">>

\* The model name the routes report.
RouteModel(v) == IF IsStreaming(v) THEN "qwen3:4b" ELSE "qwen3:1.7b"

\* ----------------------------------------------------------- model replies
Whitespace == {" ", "\n"}

RECURSIVE TrimStart(_)
TrimStart(s) ==
  IF Len(s) > 0 /\ Head(s) \in Whitespace THEN TrimStart(Tail(s)) ELSE s

RECURSIVE TrimEnd(_)
TrimEnd(s) ==
  IF Len(s) > 0 /\ s[Len(s)] \in Whitespace THEN TrimEnd(SubSeq(s, 1, Len(s) - 1)) ELSE s

\* The white space removed at the end only.
Trim_EndOnly(s) == TrimEnd(s)

\* String.prototype.trim
Trim(s) == TrimEnd(TrimStart(s))

\* text.indexOf(t) and text.lastIndexOf(t), 1-based, 0 when t does not occur.
IndexOf(text, t) ==
  IF \E i \in 1..Len(text) : text[i] = t
  THEN CHOOSE i \in 1..Len(text) : text[i] = t /\ \A j \in 1..(i - 1) : text[j] # t
  ELSE 0

LastIndexOf(text, t) ==
  IF \E i \in 1..Len(text) : text[i] = t
  THEN CHOOSE i \in 1..Len(text) : text[i] = t /\ \A j \in (i + 1)..Len(text) : text[j] # t
  ELSE 0

\* A completed computation: the text it returns, or the Error it throws
\* (hasMessage: the thrown value carries a string message).
Ok(text) == [ok |-> TRUE, text |-> text, hasMessage |-> FALSE]

Thrown(msg) == [ok |-> FALSE, text |-> <<msg>>, hasMessage |-> TRUE]

ThrownOther == [ok |-> FALSE, text |-> << >>, hasMessage |-> FALSE]

\* The slice stopping before the last closing brace.
extractJsonObject_ExclusiveEnd(text) ==
  LET start == IndexOf(text, "{")
      end == LastIndexOf(text, "}")
  IN  IF start = 0 \/ end = 0 \/ end <= start
      THEN Thrown("Aucun objet JSON détecté dans la réponse du modèle.")
      ELSE Ok(SubSeq(text, start, end - 1))

\* extractJsonObject: text.slice(indexOf("{"), lastIndexOf("}") + 1), or the
\* Error thrown when there is no such slice.
extractJsonObject(text) ==
  LET start == IndexOf(text, "{")
      end == LastIndexOf(text, "}")
  IN  IF start = 0 \/ end = 0 \/ end <= start
      THEN Thrown("Aucun objet JSON détecté dans la réponse du modèle.")
      ELSE Ok(SubSeq(text, start, end))

\* A reply is a sequence of tokens: braces, commas, white space, words, and
\* whole "key": value members of a JSON object.
MemberL == "\"lecture\": \" Lu. \""

MemberL2 == "\"lecture\": \"Relu\""

MemberE == "\"ecriture\": \"Ecrit\\n\""

MemberENum == "\"ecriture\": 3"

MemberX == "\"note\": \"n\""

Members == {MemberL, MemberL2, MemberE, MemberENum, MemberX}

MemberKey(m) ==
  CASE m \in {MemberL, MemberL2} -> "lecture"
    [] m \in {MemberE, MemberENum} -> "ecriture"
    [] OTHER -> "note"

\* The value of a member: its JSON type and, for a string, its text.
MemberValue(m) ==
  CASE m = MemberL -> [t |-> "string", val |-> <<" ", "Lu.", " ">>]
    [] m = MemberL2 -> [t |-> "string", val |-> <<"Relu">>]
    [] m = MemberE -> [t |-> "string", val |-> <<"Ecrit", "\n">>]
    [] m = MemberENum -> [t |-> "number", val |-> << >>]
    [] OTHER -> [t |-> "string", val |-> <<"n">>]

NoWhitespace(s) == SelectSeq(s, LAMBDA x : x \notin Whitespace)

\* JSON.parse of a text that starts with "{" and ends with "}": the members
\* between the braces, separated by commas; ok = FALSE for a SyntaxError.
JsonParse(jsonText) ==
  LET s == NoWhitespace(jsonText)
      inner == SubSeq(s, 2, Len(s) - 1)
      wellFormed ==
        \/ inner = << >>
        \/ /\ Len(inner) % 2 = 1
           /\ \A i \in 1..Len(inner) :
                IF i % 2 = 1 THEN inner[i] \in Members ELSE inner[i] = ","
  IN  [ok |-> wellFormed,
       members |-> IF wellFormed THEN SelectSeq(inner, LAMBDA x : x \in Members) ELSE << >>]

\* obj[key] of a parsed object: the last member of that key wins.
Field(members, key) ==
  LET idx == {i \in 1..Len(members) : MemberKey(members[i]) = key}
  IN  IF idx = {} THEN [t |-> "undefined", val |-> << >>]
      ELSE MemberValue(members[CHOOSE i \in idx : \A j \in idx : j <= i])

\* RapportSchema.parse
RapportSchemaOk(members) ==
  /\ Field(members, "lecture").t = "string"
  /\ Field(members, "ecriture").t = "string"

\* Outcomes of the fetch to the chat endpoint: the promise rejects (with an
\* Error, or with a value that has no message), the status is not OK, the
\* body is not JSON, or the body is JSON with or without message.content.
Contents ==
  { None,
    Some(<<" ", "Bonjour", " ">>),
    Some(<<"{", MemberL, ",", MemberE, "}">>),
    Some(<<"Voici", " ", "{", " ", MemberL, ",", MemberE, ",", MemberX, " ", "}", "\n">>),
    Some(<<"{", MemberL, ",", MemberL2, ",", MemberE, "}">>),
    Some(<<"{", MemberL, "}">>),
    Some(<<"{", MemberL, ",", MemberENum, "}">>),
    Some(<<"{", MemberL, MemberE, "}">>),
    Some(<<"}", " ", "{">>),
    Some(<<"Fin", "}">>),
    Some(<<"{", MemberL, ",">>),
    Some(<<"{", "exemple", "}", " ", "{", MemberL, ",", MemberE, "}">>) }

Fetch(kind, content) == [kind |-> kind, content |-> content]

FetchOutcomes ==
  {Fetch(k, None) : k \in {"reject", "rejectNoMessage", "notOk", "notJson"}}
  \cup {Fetch("ok", c) : c \in Contents}

\* The try block of generateOnce: the text it returns, or what it throws.
generateOnceTry(v, fetch) ==
  CASE fetch.kind = "reject" -> Thrown("fetch failed")
    [] fetch.kind = "rejectNoMessage" -> ThrownOther
    [] fetch.kind = "notOk" -> Thrown("HTTP 500 Internal Server Error")
    [] fetch.kind = "notJson" -> Thrown("Unexpected token in JSON")
    [] OTHER ->
         LET raw == Trim(IF fetch.content.has THEN fetch.content.val ELSE << >>)
             jsonText == extractJsonObject(raw)
             parsed == JsonParse(jsonText.text)
         IN  IF v = "json1" THEN Ok(raw)
             ELSE IF ~jsonText.ok THEN jsonText
             ELSE IF ~parsed.ok THEN Thrown("Unexpected token in JSON")
             ELSE IF ~RapportSchemaOk(parsed.members) THEN Thrown("Required")
             ELSE Ok(Trim(Field(parsed.members, "lecture").val) \o <<"\n", "\n">>
                     \o Trim(Field(parsed.members, "ecriture").val))

\* The catch block rethrowing instead of returning the message.
generateOnce_Rethrow(v, fetch) ==
  LET r == generateOnceTry(v, fetch)
  IN  IF r.ok THEN [threw |-> FALSE, text |-> r.text]
      ELSE [threw |-> TRUE, text |-> r.text]

\* The catch block returning the bare message of the error.
generateOnce_BareMessage(v, fetch) ==
  LET r == generateOnceTry(v, fetch)
  IN  [threw |-> FALSE, text |-> IF r.ok \/ r.hasMessage THEN r.text ELSE <<"Erreur inconnue">>]

\* generateOnce: threw says whether the promise rejects, text what it
\* resolves to.  The catch block turns every error into a returned message.
generateOnce(v, fetch) ==
  LET r == generateOnceTry(v, fetch)
      msg == IF r.hasMessage THEN r.text[1] ELSE "Erreur inconnue"
  IN  IF r.ok THEN [threw |-> FALSE, text |-> r.text]
      ELSE [threw |-> FALSE, text |-> ErrorText(msg)]

\* pingModel: TRUE exactly when ollama.list() resolves.
pingModel_Throws(listOk) == [threw |-> ~listOk, value |-> TRUE]

pingModel(listOk) == [threw |-> FALSE, value |-> listOk]

\* ------------------------------------------------------------------- hooks
SetHeader(hdr, name, value) == [hdr EXCEPT ![name] = value]

\* The preflight reply always allowing the default headers.
PreflightHeaders_Fixed(rq, hdr) ==
  [hdr EXCEPT !["acapn"] = True, !["acao"] = resolveAllowOrigin(rq.origin), !["acac"] = True,
              !["vary"] = <<"Origin">>, !["acam"] = AllowMethods,
              !["acah"] = DefaultAllowHeaders]

\* The headers the onRequest hook and app.options set on a preflight reply.
PreflightHeaders(rq, hdr) ==
  LET allowOrigin == resolveAllowOrigin(rq.origin)
      acrh == IF rq.acrh = Absent THEN DefaultAllowHeaders ELSE rq.acrh
  IN  [hdr EXCEPT !["acapn"] = True, !["acao"] = allowOrigin, !["acac"] = True,
                  !["vary"] = <<"Origin">>, !["acam"] = AllowMethods, !["acah"] = acrh]

\* The onSend hook leaving out the Private-Network header.
OnSend_NoPna(rq, hdr) ==
  IF Truthy(rq.origin)
  THEN [hdr EXCEPT !["acao"] = resolveAllowOrigin(rq.origin), !["acac"] = True,
                   !["vary"] = <<"Origin">>]
  ELSE hdr

\* The onSend hook adding the CORS headers whether or not there is an Origin.
OnSend_Unconditional(rq, hdr) ==
  [hdr EXCEPT !["acapn"] = True, !["acao"] = resolveAllowOrigin(rq.origin),
              !["acac"] = True, !["vary"] = <<"Origin">>]

\* The onSend hook: the headers of the reply as it leaves.
OnSend(rq, hdr) ==
  LET pna == SetHeader(hdr, "acapn", True)
  IN  IF Truthy(rq.origin)
      THEN [pna EXCEPT !["acao"] = resolveAllowOrigin(rq.origin), !["acac"] = True,
                       !["vary"] = <<"Origin">>]
      ELSE pna

\* reply.status(status).send(payload): the onSend hook runs, then the head
\* and the payload are written and the response is ended.
Send(rq, rs, status, payload) ==
  LET out == OnSend(rq, rs.hdr)
  IN  [rs EXCEPT !.hdr = out, !.sent = TRUE, !.status = status, !.wire = out,
                 !.body = payload, !.ended = rs.ended + 1]

\* The preHandler hook of the cors plugin with the origin callback of the
\* server: the callback answers isAllowedOrigin(origin); on true the plugin
\* reflects a present Origin, on false it adds nothing and lets the request
\* through.
CorsHeaders(rq, hdr) ==
  LET vary == SetHeader(hdr, "vary", <<"Origin">>)
  IN  IF isAllowedOrigin(rq.origin) /\ Truthy(rq.origin)
      THEN SetHeader(vary, "acao", rq.origin)
      ELSE vary

\* The raw headers of the hijacked streaming response.
StreamHeaders(rq) ==
  [NoHeaders EXCEPT !["acao"] = resolveAllowOrigin(rq.origin), !["acac"] = True,
                    !["acapn"] = True, !["vary"] = <<"Origin">>,
                    !["ctype"] = <<"text/plain; charset=utf-8">>]

\* ------------------------------------------------------------- buildPrompt
\* A prompt is the sequence of its lines (the array buildPrompt joins with
\* "\n"); a line is the sequence of its pieces, << >> for an empty line.

\* The lines before the age of the patient, in prompt.ts and in the two
\* earlier revisions (without and with niveau).  The typographic apostrophe
\* of prompt.ts line 44 and of part_002 lines 20 and 21 is written ' here.
InstructionsJson ==
  << <<"Tu es orthophoniste.">>,
     << >>,
     <<"Tâche : à partir des données patient et de la liste d'indices ci-dessous, produis un OBJET JSON structuré décrivant un rapport d'orthophonie.">>,
     << >>,
     <<"CONTRAINTES GÉNÉRALES :">>,
     <<"- Tu DOIS répondre STRICTEMENT en JSON valide (UTF-8), sans aucun texte avant ni après.">>,
     <<"- Aucun commentaire, aucune explication hors JSON, aucune mise en forme Markdown.">>,
     << >>,
     <<"SCHÉMA JSON EXACT À RESPECTER :">>,
     <<"{">>,
     <<"  \"lecture\": \"<paragraphe complet sur la lecture>\",">>,
     <<"  \"ecriture\": \"<paragraphe complet sur l'écriture>\"">>,
     <<"}">>,
     << >>,
     <<"CONTRAINTES SUR LE CONTENU (CHAMP lecture) :">>,
     <<"- Le champ \"lecture\" contient un unique paragraphe (aucun saut de ligne interne).">>,
     <<"- La première phrase du paragraphe commence par une tournure du type « Lors des épreuves de lecture, le patient ... » (ou formulation strictement équivalente).">>,
     <<"- Ne répète pas ensuite cette tournure exacte dans les phrases suivantes : utilise des formulations variées pour éviter la redondance.">>,
     <<"- Les phrases qui décrivent des indices liés à la lecture sont toutes dans ce paragraphe.">>,
     << >>,
     <<"CONTRAINTES SUR LE CONTENU (CHAMP ecriture) :">>,
     <<"- Le champ \"ecriture\" contient un unique paragraphe (aucun saut de ligne interne).">>,
     <<"- La première phrase du paragraphe commence par une tournure du type « En production écrite, le patient ... » (ou formulation strictement équivalente).">>,
     <<"- Ne répète pas ensuite cette tournure exacte dans les phrases suivantes : utilise des formulations variées pour éviter la redondance.">>,
     <<"- Les phrases qui décrivent des indices liés à l'écriture sont toutes dans ce paragraphe.">>,
     << >>,
     <<"CONSIGNES DE RÉDACTION (STYLE) :">>,
     <<"- Utilise l'expression « le patient » uniquement dans la première phrase de chaque paragraphe, puis varie ensuite les formulations (pronoms, tournures impersonnelles, reformulations).">>,
     <<"- Transforme chaque tag en une phrase complète, descriptive et clinique décrivant l'action, la stratégie ou la difficulté concrète du patient.">>,
     <<"- Ne crée pas de nouveaux troubles ou mécanismes cliniques qui ne figurent pas dans la liste des indices : appuie-toi exclusivement sur les difficultés explicitement présentes dans les tags (pas d'hypothèses supplémentaires, pas de notions de « supports visuels » ou d'« images en mots » si elles ne sont pas indiquées).">>,
     <<"- Reformule les intitulés bruts des tags en français naturel : ne copie pas mot à mot les libellés, mais rédige des phrases grammaticalement correctes et idiomatiques.">>,
     <<"- Utilise un style proche d'un compte-rendu : phrases longues mais claires, avec des connecteurs logiques (« de plus », « en outre », « ainsi que », « également », « par ailleurs », « on observe également », « suggérant », « témoignant de », etc.).">>,
     <<"- Varie les verbes : « présente », « on observe », « on note », « révèle », « témoignant de », « suggérant », etc.">>,
     <<"- À l'intérieur d'un même paragraphe, chaque phrase doit apporter une information clinique nouvelle : ne reformule pas plusieurs fois la même difficulté avec des tournures très proches.">>,
     <<"- Si une difficulté similaire est présente en lecture et en écriture (par exemple homophones, ordre des mots, segmentation), formule-la différemment dans chaque paragraphe (angle clinique, conséquence, contexte) de sorte que les phrases ne soient pas des copies quasi-identiques.">>,
     <<"- Évite les répétitions inutiles d'expressions complètes (par exemple ne répète pas plusieurs fois « lors des épreuves de lecture » ou « en production écrite ») : assure une progression discursive fluide.">>,
     <<"- Le texte doit être rédigé dans un français correct, sans calques maladroits des intitulés (par exemple « inversions phonologiques » plutôt que « phonologiques inversions », « difficultés au plan graphomoteur » plutôt que « troubles graphomotricités »).">>,
     <<"- Ton professionnel, clinique et bienveillant.">>,
     <<"- Aucun titre, aucune section, aucune liste à puces, aucune mise en forme Markdown.">>,
     <<"- Pas d'introduction type « Rapport », « Contexte », ni de signature.">>,
     << >>,
     <<"VÉRIFICATION FINALE AVANT RÉPONSE :">>,
     <<"- Relis mentalement les deux paragraphes et corrige toute faute de grammaire, d'accord ou de syntaxe avant de renvoyer le JSON final.">>,
     << >>,
     <<"CONTRAINTES DE COMPTAGE :">>,
     <<"- À partir de la liste des indices ci-dessous, écris exactement une phrase par indice (1 indice = 1 phrase).">>,
     <<"- Si la liste contient N indices, la somme des phrases dans lecture + écriture est exactement égale à N.">>,
     <<"- Ne fusionne jamais plusieurs indices dans une même phrase.">>,
     <<"- N'utilise jamais le même indice pour produire plusieurs phrases différentes : une difficulté clinique donnée doit correspondre à une seule phrase dans l'ensemble du rapport.">>,
     << >>,
     <<"Données patient (contexte) :">> >>

InstructionsPlain ==
  << <<"Tu es orthophoniste.">>,
     <<"Tâche : rédige un rapport d'orthophoniste en français en exactement deux paragraphes séparés par un saut de ligne : un paragraphe sur la lecture, puis un paragraphe sur l'écriture.">>,
     <<"Contraintes de sortie :">>,
     <<"- Réponds en faisant exactement une phrase par puce de la liste des indices ci-dessous (1 indice = 1 phrase).">>,
     <<"- Si la liste contient 6 indices, tu dois écrire exactement 6 phrases.">>,
     <<"- Ne fusionne jamais plusieurs indices dans une même phrase.">>,
     <<"- Répartis les phrases issues des indices liés à la lecture dans le premier paragraphe et celles liées à l'écriture dans le second paragraphe.">>,
     <<"- Commence le paragraphe lecture par une tournure du type « Lors des épreuves de lecture, ... » (ou formulation strictement équivalente).">>,
     <<"- Commence le paragraphe écriture par une tournure du type « En production écrite, les analyses révèlent ... » (ou formulation strictement équivalente).">>,
     <<"- Commence chaque paragraphe par une première phrase qui contient une seule fois l'expression « le patient », puis évite de réutiliser « le patient » dans le reste du paragraphe.">>,
     <<"- À l'intérieur de chaque paragraphe, n'insère aucun saut de ligne : toutes les phrases du paragraphe doivent se suivre dans un seul bloc de texte.">>,
     <<"- Insère une seule ligne vide entre le paragraphe lecture et le paragraphe écriture.">>,
     <<"- Aucun titre, aucune section, aucune liste à puces dans la réponse, aucune mise en forme Markdown (gras/italique).">>,
     <<"- Pas d'introduction type « Rapport », « Contexte », ni de signature.">>,
     <<"- Ton professionnel, clinique et bienveillant.">>,
     << >>,
     <<"Consignes de rédaction (Style) :">>,
     <<"- Utilise « le patient » uniquement dans la première phrase de chaque paragraphe, puis varie ensuite les formulations (pronoms, tournures impersonnelles, reformulations).">>,
     <<"- Transforme chaque tag en une phrase complète, descriptive et clinique décrivant l'action, la stratégie ou la difficulté concrète du patient.">>,
     <<"- Utilise un style proche d'un compte-rendu : phrases longues mais claires, avec des connecteurs logiques (« de plus », « en outre », « ainsi que », « également », « par ailleurs », « on observe également », « suggérant », « témoignant de », etc.).">>,
     <<"- Varie les verbes : « présente », « on observe », « on note », « révèle », « témoignant de », « suggérant », etc.">>,
     << >>,
     <<"Données patient :">> >>

InstructionsNiveau ==
  << <<"Tu es orthophoniste.">>,
     <<"Tâche: rédige un rapport d'orthophoniste en français en deux paragraphes séparés par un saut de ligne : un paragraphe sur la lecture et un paragraphe sur l'écriture.">>,
     <<"Contraintes de sortie:">>,
     <<"- Réponds en faisant exactement une phrase par puce de la liste des indices ci-dessous.">>,
     <<"- Si la liste contient 6 indices, tu dois écrire exactement 6 phrases.">>,
     <<"- Ne fusionne jamais plusieurs indices dans une même phrase.">>,
     <<"- Classe chaque phrase dans le bon paragraphe (lecture vs écriture) selon le sens de l'indice.">>,
     <<"- Si aucun indice ne concerne la lecture, ne fais pas de paragraphe lecture.">>,
     <<"- Si aucun indice ne concerne l'écriture, ne fais pas de paragraphe écriture.">>,
     <<"- Aucun titre, aucune section, aucune liste à puces dans la réponse, aucune mise en forme Markdown (gras/italique).">>,
     <<"- Pas d'introduction type « Rapport », « Contexte », ni de signature.">>,
     <<"- Ton professionnel et bienveillant.">>,
     << >>,
     <<"Données patient:">> >>

ListHeader == <<"Liste des indices cliniques (1 indice = 1 phrase) :">>

ReminderPlain ==
  <<"Rappel : rédige exactement une phrase par indice, en les organisant en deux paragraphes continus : lecture d'abord, puis écriture.">>

ReminderNiveau ==
  <<"Rappel: Une phrase unique pour chaque indice de la liste ci-dessus. Sépare bien les paragraphes lecture/écriture par un saut de ligne.">>

\* `${age}`: the decimal writing of the number.
AgeText(age) == ToString(age.n)

\* The list written from the last tag to the first.
indicesList_Reversed(tags) ==
  IF tags = << >> THEN << << >> >>
  ELSE [i \in 1..Len(tags) |-> <<"- ", tags[Len(tags) + 1 - i].s>>]

\* tags.map((tag) => `- ${tag}`).join("\n"): the lines of the joined string,
\* one per tag (one empty line when there is no tag).
indicesList(tags) ==
  IF tags = << >> THEN << << >> >>
  ELSE [i \in 1..Len(tags) |-> <<"- ", tags[i].s>>]

\* The line naming a niveau whenever the key is a string, empty or not.
AgeLine_AlwaysNiveau(v, input) ==
  IF IsStreaming(v)
  THEN <<"Âge: ", AgeText(input.age)>>
       \o (IF input.niveau.t = "string"
           THEN <<", Niveau: ", input.niveau.s>> ELSE << >>)
  ELSE <<"Âge : ", AgeText(input.age)>>

\* The line giving the age: `Âge : ${age}`, and in the revision with niveau
\* `Âge: ${age}${niveau ? `, Niveau: ${niveau}` : ""}`.
AgeLine(v, input) ==
  IF IsStreaming(v)
  THEN <<"Âge: ", AgeText(input.age)>>
       \o (IF input.niveau.t = "string" /\ input.niveau.s # ""
           THEN <<", Niveau: ", input.niveau.s>> ELSE << >>)
  ELSE <<"Âge : ", AgeText(input.age)>>

\* buildPrompt(input) on a validated body: prompt.ts for the JSON report,
\* the revision without niveau for the plain-text report, the revision with
\* niveau for the streamed report.
buildPrompt(v, input) ==
  CASE v = "json2" ->
         InstructionsJson \o <<AgeLine(v, input), << >>, ListHeader>>
           \o indicesList(input.tags.items)
    [] v = "json1" ->
         InstructionsPlain \o <<AgeLine(v, input), << >>, ListHeader>>
           \o indicesList(input.tags.items) \o << << >>, ReminderPlain>>
    [] OTHER ->
         InstructionsNiveau \o <<AgeLine(v, input), << >>, ListHeader>>
           \o indicesList(input.tags.items) \o << << >>, ReminderNiveau>>

\* ------------------------------------------------------------------ actions
Init ==
  /\ version \in Versions
  /\ pc = [r \in Reqs |-> "idle"]
  /\ req = [r \in Reqs |-> NoReq]
  /\ resp = [r \in Reqs |-> NoResp]
  /\ llm = [r \in Reqs |-> NoLlm]

\* A request reaches the server.
Arrive(r) ==
  /\ pc[r] = "idle"
  /\ \E method \in Methods, path \in Paths, origin \in Origins :
       \E acrh \in IF method = "OPTIONS" THEN RequestHeaders ELSE {Absent} :
         \E body \in IF method = "POST" /\ path = "/api/generate" THEN Bodies ELSE {NoBody} :
           req' = [req EXCEPT ![r] = [method |-> method, path |-> path, origin |-> origin,
                                      acrh |-> acrh, body |-> body]]
  /\ pc' = [pc EXCEPT ![r] = "onRequest"]
  /\ UNCHANGED <<version, resp, llm>>

\* The hook calling done() after it has answered the preflight.
PassedOn_Always(rq) == TRUE

\* Whether the onRequest hook calls done(): it does for every request but a
\* preflight, where it returns right after reply.send().
PassedOn(rq) == rq.method # "OPTIONS"

\* The global onRequest hook: a preflight is answered here, with 204, and
\* goes no further; any other request is passed on.
OnRequest(r) ==
  /\ pc[r] = "onRequest"
  /\ IF req[r].method = "OPTIONS"
     THEN /\ resp' = [resp EXCEPT ![r] =
                        Send(req[r], [resp[r] EXCEPT !.hdr = PreflightHeaders(req[r], @)],
                             204, NoPayload)]
          /\ pc' = [pc EXCEPT ![r] = IF PassedOn(req[r]) THEN "preHandler" ELSE "done"]
     ELSE /\ pc' = [pc EXCEPT ![r] = IF PassedOn(req[r]) THEN "preHandler" ELSE "done"]
          /\ UNCHANGED resp
  /\ UNCHANGED <<version, req, llm>>

\* The cors plugin, registered on the preHandler hook.
CorsPreHandler(r) ==
  /\ pc[r] = "preHandler"
  /\ resp' = [resp EXCEPT ![r].hdr = CorsHeaders(req[r], @)]
  /\ pc' = [pc EXCEPT ![r] = "handler"]
  /\ UNCHANGED <<version, req, llm>>

\* GET /api/health
Health(r) ==
  /\ pc[r] = "handler"
  /\ req[r].method = "GET" /\ req[r].path = "/api/health"
  /\ \E listOk \in BOOLEAN :
       LET ok == pingModel(listOk)
       IN  /\ llm' = [llm EXCEPT ![r].list = IF listOk THEN "ok" ELSE "failed"]
           /\ resp' = [resp EXCEPT ![r] =
                         IF ok.threw
                         THEN Send(req[r], @, 500, ErrorPayload("Internal Server Error"))
                         ELSE Send(req[r], @, 200, HealthPayload(ok.value, RouteModel(version)))]
  /\ pc' = [pc EXCEPT ![r] = "done"]
  /\ UNCHANGED <<version, req>>

\* No route matches the method and the path: the default 404 reply.
NotFound(r) ==
  /\ pc[r] = "handler"
  /\ ~(req[r].method = "GET" /\ req[r].path = "/api/health")
  /\ ~(req[r].method = "POST" /\ req[r].path = "/api/generate")
  /\ resp' = [resp EXCEPT ![r] = Send(req[r], @, 404, ErrorPayload("Not Found"))]
  /\ pc' = [pc EXCEPT ![r] = "done"]
  /\ UNCHANGED <<version, req, llm>>

\* The catch block of the validation answering 500.
InvalidBodyReply_500(rq, rs) == Send(rq, rs, 500, ErrorPayload("Internal Server Error"))

\* The reply to a body BodySchema.parse throws on.
InvalidBodyReply(rq, rs) == Send(rq, rs, 400, ErrorPayload("Invalid request body"))

\* The head left to be written with the first chunk.
WriteHead_Deferred(rq, rs) == [rs EXCEPT !.hijacked = TRUE]

\* reply.hijack(), the headers set on the raw response, res.writeHead(200):
\* the status line and the headers are committed.
WriteHead(rq, rs) ==
  [rs EXCEPT !.hijacked = TRUE, !.sent = TRUE, !.status = 200, !.wire = StreamHeaders(rq)]

\* POST /api/generate up to its first await: the body is validated first; a
\* valid body starts the model call (streaming: after the head is written on
\* the hijacked response).
Generate(r) ==
  /\ pc[r] = "handler"
  /\ req[r].method = "POST" /\ req[r].path = "/api/generate"
  /\ IF ~BodySchemaOk(version, req[r].body)
     THEN /\ resp' = [resp EXCEPT ![r] = InvalidBodyReply(req[r], @)]
          /\ pc' = [pc EXCEPT ![r] = "done"]
          /\ UNCHANGED llm
     ELSE IF IsStreaming(version)
     THEN /\ resp' = [resp EXCEPT ![r] = WriteHead(req[r], @)]
          /\ llm' = [llm EXCEPT ![r].calls = @ + 1, ![r].chat = "opening",
                                ![r].prompt = buildPrompt(version, req[r].body)]
          /\ pc' = [pc EXCEPT ![r] = "chat"]
     ELSE /\ llm' = [llm EXCEPT ![r].calls = @ + 1,
                                ![r].prompt = buildPrompt(version, req[r].body)]
          /\ pc' = [pc EXCEPT ![r] = "fetch"]
          /\ UNCHANGED resp
  /\ UNCHANGED <<version, req>>

\* The generator yielding the text of every chunk, empty or not.
Yields_KeepEmpty(v, chunk) == <<ChunkText(v, chunk)>>

\* What streamGenerate yields for one chunk of the chat stream: its text,
\* unless the text is empty.
Yields(v, chunk) ==
  LET text == ChunkText(v, chunk)
  IN  IF Truthy(text) THEN <<text>> ELSE << >>

\* One response object for the whole server, that of slot 1.
ResOf_Shared(r) == 1

\* const res = reply.raw: the response the handler of request r writes to
\* and ends, a constant local to that invocation of the handler.
ResOf(r) == r

\* The body of the for-await loop of the route: res.write(chunk).
Relay(rs, texts) == [rs EXCEPT !.writes = @ \o texts]

\* res.end() at the end of the try block.
TryEnd(rs) == [rs EXCEPT !.ended = @ + 1]

\* The catch block logging the error and leaving the response open.
CatchEnd_Never(rs) == rs

\* The catch block: if (!res.writableEnded) res.end().
CatchEnd(rs) == IF rs.ended > 0 THEN rs ELSE [rs EXCEPT !.ended = @ + 1]

\* The rejection of ollama.chat let out of the generator.
OpenFailed_Throws(v) == [threw |-> TRUE, texts |-> << >>]

\* What streamGenerate does when ollama.chat rejects: part_003 has no try
\* around the call and throws; llm.ts catches, yields one message ending
\* with a line feed, and returns.
OpenFailed(v) ==
  IF v = "stream1" THEN [threw |-> TRUE, texts |-> << >>]
  ELSE [threw |-> FALSE, texts |-> <<ErrorText("fetch failed") \o <<"\n">>>>]

\* await ollama.chat(...) settles.  When it rejects, part_003 lets the error
\* out of the generator (the route's catch block ends the response), and
\* llm.ts yields one message and returns at the next pull.
ChatOpen(r) ==
  /\ pc[r] = "chat"
  /\ \E opened \in BOOLEAN :
       IF opened
       THEN /\ llm' = [llm EXCEPT ![r].chat = "open"]
            /\ pc' = [pc EXCEPT ![r] = "stream"]
            /\ UNCHANGED resp
       ELSE /\ llm' = [llm EXCEPT ![r].chat = "openFailed"]
            /\ IF OpenFailed(version).threw
               THEN /\ resp' = [resp EXCEPT ![ResOf(r)] = CatchEnd(@)]
                    /\ pc' = [pc EXCEPT ![r] = "done"]
               ELSE /\ resp' = [resp EXCEPT ![ResOf(r)] = Relay(@, OpenFailed(version).texts)]
                    /\ pc' = [pc EXCEPT ![r] = "stream"]
  /\ UNCHANGED <<version, req>>

\* The chat stream delivers a chunk; the generator yields its text and the
\* route writes it.
StreamChunk(r) ==
  /\ pc[r] = "stream"
  /\ llm[r].chat = "open"
  /\ Len(llm[r].chunks) < MaxChunks
  /\ \E chunk \in Chunks :
       /\ llm' = [llm EXCEPT ![r].chunks = Append(@, chunk)]
       /\ resp' = [resp EXCEPT ![ResOf(r)] = Relay(@, Yields(version, chunk))]
  /\ UNCHANGED <<version, pc, req>>

\* The generator returns: the loop ends and the try block ends the response.
StreamEnd(r) ==
  /\ pc[r] = "stream"
  /\ llm' = [llm EXCEPT ![r].chat = IF @ = "open" THEN "ended" ELSE @]
  /\ resp' = [resp EXCEPT ![ResOf(r)] = TryEnd(@)]
  /\ pc' = [pc EXCEPT ![r] = "done"]
  /\ UNCHANGED <<version, req>>

\* The chat stream throws: the catch block of the route ends the response.
StreamThrow(r) ==
  /\ pc[r] = "stream"
  /\ llm[r].chat = "open"
  /\ llm' = [llm EXCEPT ![r].chat = "threw"]
  /\ resp' = [resp EXCEPT ![ResOf(r)] = CatchEnd(@)]
  /\ pc' = [pc EXCEPT ![r] = "done"]
  /\ UNCHANGED <<version, req>>

\* The reply of the JSON route once generateOnce has settled.
JsonReply(rq, rs, generated, m) ==
  IF generated.threw
  THEN Send(rq, rs, 500, ErrorPayload("Generation failed"))
  ELSE Send(rq, [rs EXCEPT !.hdr = SetHeader(@, "ctype", <<"application/json; charset=utf-8">>)],
            200, TextPayload(generated.text, m))

\* await generateOnce(parsed) settles and the JSON route replies.
FetchDone(r) ==
  /\ pc[r] = "fetch"
  /\ \E fetch \in FetchOutcomes :
       /\ llm' = [llm EXCEPT ![r].fetch = fetch]
       /\ resp' = [resp EXCEPT ![r] =
                     JsonReply(req[r], @, generateOnce(version, fetch), RouteModel(version))]
  /\ pc' = [pc EXCEPT ![r] = "done"]
  /\ UNCHANGED <<version, req>>

\* The exchange is over; the server goes on serving.
Close(r) ==
  /\ pc[r] = "done"
  /\ pc' = [pc EXCEPT ![r] = "idle"]
  /\ req' = [req EXCEPT ![r] = NoReq]
  /\ resp' = [resp EXCEPT ![r] = NoResp]
  /\ llm' = [llm EXCEPT ![r] = NoLlm]
  /\ UNCHANGED version

Next ==
  \/ \E r \in Main : Arrive(r)
  \/ \E r \in Main : OnRequest(r)
  \/ \E r \in Main : CorsPreHandler(r)
  \/ \E r \in Main : Health(r)
  \/ \E r \in Main : NotFound(r)
  \/ \E r \in Main : Generate(r)
  \/ \E r \in Main : ChatOpen(r)
  \/ \E r \in Main : StreamChunk(r)
  \/ \E r \in Main : StreamEnd(r)
  \/ \E r \in Main : StreamThrow(r)
  \/ \E r \in Main : FetchDone(r)
  \/ \E r \in Main : Close(r)

Spec == Init /\ [][Next]_vars

FairSpec ==
  /\ Spec
  /\ \A r \in Reqs : WF_vars(ChatOpen(r) \/ StreamChunk(r) \/ StreamEnd(r) \/ StreamThrow(r))

\* ------------------------------------------------- two requests in flight
\* The bodies of the concurrent requests: valid ones, so that both reach the
\* model.
ConcBodies ==
  {Body(Num(10), Arr(tags), Undef, Undef, Undef, Undef) :
     tags \in {<<TagS>>, <<TagS, TagS2>>, <<TagJ>>, <<TagJ, TagJ2>>}}

ConcInit ==
  /\ version \in {"stream2", "json2"}
  /\ pc = [r \in Reqs |-> "idle"]
  /\ req = [r \in Reqs |-> NoReq]
  /\ resp = [r \in Reqs |-> NoResp]
  /\ llm = [r \in Reqs |-> NoLlm]

\* A POST /api/generate with a valid body arrives while the other slot may
\* be anywhere in its own exchange.
ConcArrive(r) ==
  /\ pc[r] = "idle"
  /\ \E body \in {b \in ConcBodies : BodySchemaOk(version, b)} :
       req' = [req EXCEPT ![r] = [method |-> "POST", path |-> "/api/generate",
                                  origin |-> ORIGIN, acrh |-> Absent, body |-> body]]
  /\ pc' = [pc EXCEPT ![r] = "onRequest"]
  /\ UNCHANGED <<version, resp, llm>>

ConcStreamChunk(r) ==
  /\ Len(llm[r].chunks) < MaxConcChunks
  /\ StreamChunk(r)

ConcNext ==
  \/ \E r \in Reqs : ConcArrive(r)
  \/ \E r \in Reqs : OnRequest(r)
  \/ \E r \in Reqs : CorsPreHandler(r)
  \/ \E r \in Reqs : Generate(r)
  \/ \E r \in Reqs : ChatOpen(r)
  \/ \E r \in Reqs : ConcStreamChunk(r)
  \/ \E r \in Reqs : StreamEnd(r)
  \/ \E r \in Reqs : StreamThrow(r)
  \/ \E r \in Reqs : FetchDone(r)
  \/ \E r \in Reqs : Close(r)

ConcSpec == ConcInit /\ [][ConcNext]_vars

\* ---------------------------------------------------- buildPrompt (toon)
\* The lines before the age of the patient in the revision that hands the
\* data to the TOON encoder.
InstructionsToon ==
  << <<"Tu es orthophoniste.">>,
     <<"Tâche: rédige un rapport clinique en français sous forme de texte continu.">>,
     <<"Contraintes de sortie:">>,
     <<"- Réponds uniquement par le rapport.">>,
     <<"- Aucun titre, aucune section, aucune liste, aucune mise en forme Markdown.">>,
     <<"- Pas d'introduction type « Rapport », « Contexte », « Synthèse », ni de signature.">>,
     <<"- N'inclus pas ces consignes ni les données brutes dans la réponse.">>,
     <<"- Ton professionnel et bienveillant.">>,
     << >>,
     <<"Données patient:">> >>

ToonHeader == <<"Indices cliniques (étiquettes structurées):">>

\* The object handed to encode: context carries the key niveau only when
\* niveau is truthy, ...(niveau ? { niveau } : {}).
Data(input) ==
  [context |-> [task |-> "Synthèse orthophonique",
                patientAge |-> input.age,
                niveau |-> IF input.niveau.t = "string" /\ input.niveau.s # ""
                           THEN Some(<<input.niveau.s>>) ELSE None],
   tags |-> input.tags.items]

\* The items of an array of strings, separated by commas.
RECURSIVE JoinComma(_)
JoinComma(items) ==
  IF items = << >> THEN << >>
  ELSE IF Len(items) = 1 THEN <<items[1].s>>
  ELSE <<items[1].s, ",">> \o JoinComma(Tail(items))

\* encode(data) of @toon-format/toon, a library that is not among the
\* sources: by the TOON format, an object is written one line per key, in
\* the order of the keys, nested keys indented, and an array of strings on
\* one line with its length.  A key the object does not have has no line.
encode(data) ==
  << <<"context:">>,
     <<"  task: ", data.context.task>>,
     <<"  patientAge: ", AgeText(data.context.patientAge)>> >>
  \o (IF data.context.niveau.has
      THEN << <<"  niveau: ">> \o data.context.niveau.val >> ELSE << >>)
  \o << <<"tags[", ToString(Len(data.tags)), "]: ">> \o JoinComma(data.tags) >>

\* buildPrompt(input) of the revision with the TOON block.
buildPromptToon(input) ==
  InstructionsToon \o <<AgeLine("stream2", input), ToonHeader>> \o encode(Data(input))

\* ------------------------------------------------------- the prompt alone
\* buildPrompt as a function of its input, in the two revisions that take
\* the optional niveau: part_000 41-66 ("niveau") and part_002 4-29 ("toon").
PromptVersions == {"niveau", "toon"}

PromptOf(v, input) ==
  IF v = "toon" THEN buildPromptToon(input) ELSE buildPrompt("stream2", input)

\* The inputs: bodies the streaming BodySchema accepts, niveau absent, empty
\* or not.
PromptInputs ==
  {b \in {Body(Num(a), Arr(tags), niveau, Undef, Undef, Undef) :
            a \in {MIN_AGE, 10, MAX_AGE},
            tags \in {<<TagS>>, <<TagS, TagS2>>, <<TagS, TagS>>, Rep(TagS2, MAX_TAGS_STREAM)},
            niveau \in {Undef, Str(""), Str("CE1"), Str("6e")}} :
     BodySchemaOk("stream2", b)}

PromptInit ==
  /\ version \in PromptVersions
  /\ pc = [r \in Reqs |-> "idle"]
  /\ req = [r \in Reqs |-> NoReq]
  /\ resp = [r \in Reqs |-> NoResp]
  /\ llm = [r \in Reqs |-> NoLlm]

\* A validated body is handed to buildPrompt.
PromptInput(r) ==
  /\ pc[r] = "idle"
  /\ \E input \in PromptInputs :
       req' = [req EXCEPT ![r] = [method |-> "POST", path |-> "/api/generate",
                                  origin |-> Absent, acrh |-> Absent, body |-> input]]
  /\ pc' = [pc EXCEPT ![r] = "prompt"]
  /\ UNCHANGED <<version, resp, llm>>

\* buildPrompt returns.
PromptBuild(r) ==
  /\ pc[r] = "prompt"
  /\ llm' = [llm EXCEPT ![r].prompt = PromptOf(version, req[r].body)]
  /\ pc' = [pc EXCEPT ![r] = "done"]
  /\ UNCHANGED <<version, req, resp>>

PromptNext ==
  \/ \E r \in Main : PromptInput(r)
  \/ \E r \in Main : PromptBuild(r)
  \/ \E r \in Main : Close(r)

PromptSpec == PromptInit /\ [][PromptNext]_vars

\* ------------------------------------------------------------------ claims
IsGenerate(r) == req[r].method = "POST" /\ req[r].path = "/api/generate"

IsHealth(r) == req[r].method = "GET" /\ req[r].path = "/api/health"

\* The model was reached for request r.
ModelReached(r) ==
  llm[r].calls > 0 \/ llm[r].chat # "none" \/ llm[r].fetch.kind # "none"

\* The non-empty texts of a sequence of chunks, in order.
RECURSIVE TextsOf(_, _)
TextsOf(v, chunks) ==
  IF chunks = << >> THEN << >>
  ELSE LET text == ChunkText(v, Head(chunks))
       IN  (IF text = << >> THEN << >> ELSE <<text>>) \o TextsOf(v, Tail(chunks))

\* C1: a POST /api/generate whose body fails BodySchema never reaches the
\* model, and is answered 400 with error "Invalid request body".
C1_InvalidBodyRejected ==
  \A r \in Reqs :
    (IsGenerate(r) /\ ~BodySchemaOk(version, req[r].body)) =>
      /\ ~ModelReached(r)
      /\ resp[r].writes = << >>
      /\ resp[r].sent => (resp[r].status = 400 /\ resp[r].body.error = "Invalid request body")
      /\ pc[r] = "done" => resp[r].sent

C1_Witness ==
  \E r \in Reqs :
    /\ IsGenerate(r) /\ pc[r] = "done"
    /\ req[r].body.t = "object" /\ req[r].body.age = Num(121)
    /\ resp[r].status = 400 /\ llm[r].calls = 0

\* The condition C2 states: age a number in 2..120, tags a list of 1 to 20
\* (JSON) or 6 (streaming) members of the tag set.
C2_AgeAndTags(v, body) ==
  /\ body.t = "object"
  /\ body.age.t = "number" /\ 2 <= body.age.n /\ body.age.n <= 120
  /\ body.tags.t = "array"
  /\ 1 <= Len(body.tags.items)
  /\ Len(body.tags.items) <= (IF v \in {"json1", "json2"} THEN 20 ELSE 6)
  /\ \A i \in 1..Len(body.tags.items) :
       /\ body.tags.items[i].t = "string"
       /\ body.tags.items[i].s \in (IF v \in {"json1", "json2"} THEN TagEnumJson ELSE TagEnumStream)

\* The optional keys of the revision, each absent or of its declared type.
C2_Optionals(v, body) ==
  IF v \in {"json1", "json2"}
  THEN /\ body.prenom.t \in {"undefined", "string"}
       /\ body.nom.t \in {"undefined", "string"}
       /\ body.homme.t \in {"undefined", "boolean"}
  ELSE body.niveau.t \in {"undefined", "string"}

\* C2 as stated: a body is accepted if and only if its age and its tags are
\* valid, and every other body is answered 400.
C2_Original ==
  \A r \in Reqs :
    (IsGenerate(r) /\ pc[r] \notin {"idle", "onRequest", "preHandler", "handler"}) =>
      /\ ModelReached(r) <=> C2_AgeAndTags(version, req[r].body)
      /\ ~C2_AgeAndTags(version, req[r].body) => (resp[r].sent /\ resp[r].status = 400)

\* C2 (amended): a body is accepted if and only if its age and its tags are
\* valid and every optional key the revision declares is absent or of its
\* declared type; every other body is answered 400.
C2_Amended ==
  \A r \in Reqs :
    (IsGenerate(r) /\ pc[r] \notin {"idle", "onRequest", "preHandler", "handler"}) =>
      LET accept == C2_AgeAndTags(version, req[r].body) /\ C2_Optionals(version, req[r].body)
      IN  /\ ModelReached(r) <=> accept
          /\ ~accept => (resp[r].sent /\ resp[r].status = 400)

C2_Witness ==
  \E r \in Reqs :
    /\ IsGenerate(r) /\ pc[r] = "done" /\ IsStreaming(version)
    /\ C2_AgeAndTags(version, req[r].body)
    /\ req[r].body.niveau = Num(5)
    /\ resp[r].status = 400

\* C3: when the model stream completes without error, the writes to the
\* response are exactly the non-empty texts of the chunks the model
\* delivered, in order, each once; and so they are at every step before.
C3_PassThrough ==
  \A r \in Reqs :
    llm[r].chat \in {"open", "ended"} =>
      /\ resp[r].writes = TextsOf(version, llm[r].chunks)
      /\ llm[r].chat = "ended" => resp[r].ended = 1

C3_Witness ==
  \E r \in Reqs :
    /\ llm[r].chat = "ended" /\ version = "stream2"
    /\ llm[r].chunks = <<Chunk(Some(<<"b">>), None, None),
                         Chunk(Some(<< >>), None, Some(<<"r">>)),
                         Chunk(None, Some(<<"d">>), None)>>
    /\ resp[r].writes = <<(<<"b">>), (<<"d">>)>>

\* C4, the states: a response is never ended twice; once the model stream
\* has thrown, the writes are the non-empty texts of the chunks delivered
\* before the error and the response is ended; a validated streaming
\* request whose handler is over has its response ended.
C4_Safety ==
  \A r \in Reqs :
    /\ resp[r].ended <= 1
    /\ llm[r].chat = "threw" =>
         /\ resp[r].writes = TextsOf(version, llm[r].chunks)
         /\ resp[r].ended = 1
         /\ pc[r] = "done"
    /\ (resp[r].hijacked /\ pc[r] = "done") => resp[r].ended = 1

\* C4, the steps: nothing is written to a response after the stream threw.
C4_NoWriteAfterError ==
  [][\A r \in Reqs :
       llm[r].chat = "threw" => (resp'[r].writes = resp[r].writes \/ pc'[r] = "idle")]_vars

\* C4, the progress: the response of a validated streaming request is
\* eventually ended.
C4_EventuallyEnded ==
  \A r \in Reqs : (resp[r].hijacked /\ resp[r].ended = 0) ~> (resp[r].ended = 1)

\* C4: streaming stops on error with a prefix of the model output written,
\* and on every path of a validated streaming request the response is
\* eventually ended, exactly once.
C4_StopOnError == []C4_Safety /\ C4_NoWriteAfterError /\ C4_EventuallyEnded

C4_Witness ==
  \E r \in Reqs :
    /\ llm[r].chat = "threw"
    /\ Len(llm[r].chunks) = 2
    /\ resp[r].writes = <<(<<"a">>)>>
    /\ resp[r].ended = 1

\* What C5 states of an origin: absent or empty, or one of the four listed
\* origins, or a URL whose host name is tokensa.com or ends with
\* ".tokensa.com".
C5_Stated(origin) ==
  \/ origin = << >>
  \/ origin \in { <<"https", "://", "tokensa", ".", "com">>,
                  <<"https", "://", "www", ".", "tokensa", ".", "com">>,
                  <<"http", "://", "127.0.0.1", ":", "5500">>,
                  <<"http", "://", "localhost", ":", "5500">> }
  \/ /\ URL(origin).ok
     /\ LET host == URL(origin).hostname
            n == Len(host)
        IN  \/ host = <<"tokensa", ".", "com">>
            \/ n > 3 /\ host[n - 3] = "." /\ host[n - 2] = "tokensa"
                     /\ host[n - 1] = "." /\ host[n] = "com"

\* C5: isAllowedOrigin accepts the origin of a request exactly when C5's
\* condition holds of it (an origin that is no URL and is not listed is
\* refused, not an error), and the cors hook reflects only such origins.
C5_AllowedOrigins ==
  \A r \in Reqs :
    pc[r] # "idle" =>
      /\ isAllowedOrigin(req[r].origin) <=> C5_Stated(req[r].origin)
      /\ (pc[r] = "handler" /\ ~C5_Stated(req[r].origin)) => resp[r].hdr["acao"] = Absent

C5_Witness ==
  \E r \in Reqs :
    /\ pc[r] = "handler"
    /\ req[r].origin = <<"tokensa", ".", "com">>
    /\ ~URL(req[r].origin).ok
    /\ ~isAllowedOrigin(req[r].origin)
    /\ resp[r].hdr["acao"] = Absent

\* C6: the Access-Control-Allow-Origin of a response on the wire is the
\* request's Origin, which isAllowedOrigin accepts, or "https://tokensa.com".
C6_NoDisallowedReflection ==
  \A r \in Reqs :
    (resp[r].sent /\ resp[r].wire["acao"] # Absent) =>
      \/ resp[r].wire["acao"] = req[r].origin /\ C5_Stated(req[r].origin)
      \/ resp[r].wire["acao"] = <<"https", "://", "tokensa", ".", "com">>

C6_Witness ==
  \E r \in Reqs :
    /\ resp[r].sent /\ resp[r].hijacked
    /\ req[r].origin = <<"https", "://", "tokensa", ".", "com", ".", "evil", ".", "com">>
    /\ resp[r].wire["acao"] = <<"https", "://", "tokensa", ".", "com">>

\* C7 as stated: a POST /api/generate whose Origin isAllowedOrigin rejects
\* never reaches the model and never receives generated text.
C7_DisallowedOriginBlocked ==
  \A r \in Reqs :
    (IsGenerate(r) /\ ~isAllowedOrigin(req[r].origin)) =>
      /\ ~ModelReached(r)
      /\ resp[r].writes = << >>
      /\ resp[r].body.kind # "text"

\* C8: every response on the wire carries
\* Access-Control-Allow-Private-Network: true.
C8_PrivateNetworkHeader ==
  \A r \in Reqs : resp[r].sent => resp[r].wire["acapn"] = <<"true">>

C8_Witness ==
  \E r \in Reqs :
    /\ resp[r].sent /\ ~resp[r].hijacked /\ resp[r].status = 404
    /\ req[r].origin = Absent
    /\ resp[r].wire["acapn"] = <<"true">>

\* C9: GET /api/health is answered 200 with ok = ready = whether the list
\* call of the model API succeeded.
C9_HealthNeverFails ==
  \A r \in Reqs :
    (IsHealth(r) /\ pc[r] = "done") =>
      /\ resp[r].sent /\ resp[r].status = 200
      /\ resp[r].body.kind = "health"
      /\ resp[r].body.ok = resp[r].body.ready
      /\ resp[r].body.ok <=> llm[r].list = "ok"

C9_Witness ==
  \E r \in Reqs :
    /\ IsHealth(r) /\ pc[r] = "done"
    /\ llm[r].list = "failed"
    /\ resp[r].status = 200 /\ resp[r].body.ok = FALSE /\ resp[r].body.ready = FALSE

\* Generation failed for the request: the call to the model endpoint was
\* rejected or not OK, or its reply could not be turned into the report.
GenerationFailed(r) == ~generateOnceTry(version, llm[r].fetch).ok

\* C10 as stated: a validated single-shot request is answered 500 with
\* error "Generation failed" when generation fails, 200 with the text
\* otherwise.
C10_Original ==
  \A r \in Reqs :
    (IsGenerate(r) /\ llm[r].fetch.kind # "none" /\ pc[r] = "done") =>
      IF GenerationFailed(r)
      THEN resp[r].status = 500 /\ resp[r].body.error = "Generation failed"
      ELSE resp[r].status = 200 /\ resp[r].body.kind = "text"

\* C10 (amended): a validated single-shot request is always answered 200
\* with {text, model}; when generation fails the text is the message
\* beginning "Erreur de génération:", otherwise it is the generated text.
C10_Amended ==
  \A r \in Reqs :
    (IsGenerate(r) /\ llm[r].fetch.kind # "none" /\ pc[r] = "done") =>
      /\ resp[r].status = 200
      /\ resp[r].body.kind = "text"
      /\ resp[r].body.model = "qwen3:1.7b"
      /\ IF GenerationFailed(r)
         THEN Head(resp[r].body.text) = "Erreur de génération: "
         ELSE resp[r].body.text = generateOnceTry(version, llm[r].fetch).text

C10_Witness ==
  \E r \in Reqs :
    /\ IsGenerate(r) /\ pc[r] = "done"
    /\ llm[r].fetch.kind = "notOk"
    /\ resp[r].status = 200
    /\ Head(resp[r].body.text) = "Erreur de génération: "

\* The failure generateOnce met on its path for request r, "none" if it met
\* none.
FailureOf(r) ==
  LET fetch == llm[r].fetch
      raw == Trim(IF fetch.content.has THEN fetch.content.val ELSE << >>)
      jsonText == extractJsonObject(raw)
      parsed == JsonParse(jsonText.text)
  IN  CASE fetch.kind \in {"reject", "rejectNoMessage"} -> "network"
        [] fetch.kind = "notOk" -> "status"
        [] fetch.kind = "notJson" -> "body"
        [] fetch.kind = "ok" /\ version = "json2" /\ ~jsonText.ok -> "noObject"
        [] fetch.kind = "ok" /\ version = "json2" /\ jsonText.ok /\ ~parsed.ok -> "parse"
        [] fetch.kind = "ok" /\ version = "json2" /\ jsonText.ok /\ parsed.ok
             /\ ~RapportSchemaOk(parsed.members) -> "schema"
        [] OTHER -> "none"

\* C11: generateOnce never throws nor rejects: whatever failure it meets
\* (network error, non-OK status, no JSON object in the reply, JSON parse
\* error, reply not matching the schema), it returns a string that begins
\* with "Erreur de génération:", and that string is what the route sends.
C11_NeverThrows ==
  \A r \in Reqs :
    llm[r].fetch.kind # "none" =>
      LET generated == generateOnce(version, llm[r].fetch)
      IN  /\ ~generated.threw
          /\ FailureOf(r) # "none" =>
                /\ Head(generated.text) = "Erreur de génération: "
                /\ resp[r].body.kind = "text"
                /\ resp[r].body.text = generated.text

C11_Witness ==
  \E r \in Reqs :
    /\ pc[r] = "done"
    /\ FailureOf(r) = "schema"
    /\ resp[r].body.kind = "text"
    /\ Head(resp[r].body.text) = "Erreur de génération: "

\* The positions of the header of the indices list in a prompt.
HeaderAt(prompt) == {h \in 1..Len(prompt) : prompt[h] = ListHeader}

\* C12: the indices list of the prompt (the lines after its header, up to
\* the end of the prompt or the next empty line) holds exactly one line
\* "- <tag>" per element of tags, in the order of the input, duplicates
\* included, and the prompt contains the age of the patient.
C12_TagsSerialized ==
  \A r \in Reqs :
    llm[r].calls > 0 =>
      LET prompt == llm[r].prompt
          tags == req[r].body.tags.items
          n == Len(tags)
      IN  /\ Cardinality(HeaderAt(prompt)) = 1
          /\ \A h \in HeaderAt(prompt) :
                /\ Len(prompt) >= h + n
                /\ \A i \in 1..n : prompt[h + i] = <<"- ", tags[i].s>>
                /\ Len(prompt) = h + n \/ prompt[h + n + 1] = << >>
          /\ \E k \in 1..Len(prompt) :
                \E j \in 1..Len(prompt[k]) : prompt[k][j] = ToString(req[r].body.age.n)

C12_Witness ==
  \E r \in Reqs :
    /\ llm[r].calls > 0
    /\ req[r].body.tags.items = <<TagS, TagS2>>
    /\ \E h \in HeaderAt(llm[r].prompt) :
         /\ llm[r].prompt[h + 1] = <<"- ", "dyslexie">>
         /\ llm[r].prompt[h + 2] = <<"- ", "TDAH">>

\* C13: whatever the interleaving of two POST /api/generate requests, the
\* model call of a request is made with the prompt of that request, and its
\* response holds exactly the texts of the chunks that call produced, in
\* order (streaming), or the text that call returned (single shot).
C13_Independent ==
  \A r \in Reqs :
    /\ llm[r].calls > 0 => llm[r].prompt = buildPrompt(version, req[r].body)
    /\ llm[r].chat \in {"none", "opening", "open", "ended", "threw"} =>
         resp[r].writes = TextsOf(version, llm[r].chunks)
    /\ llm[r].chat = "openFailed" =>
         resp[r].writes = OpenFailed(version).texts
    /\ resp[r].ended <= 1
    /\ resp[r].ended = 1 => pc[r] = "done"
    /\ llm[r].fetch.kind # "none" =>
         resp[r].body.text = generateOnce(version, llm[r].fetch).text

C13_Witness ==
  \E r1, r2 \in Reqs :
    /\ r1 # r2
    /\ pc[r1] = "stream" /\ pc[r2] = "stream"
    /\ req[r1].body # req[r2].body
    /\ Len(resp[r1].writes) = 2 /\ Len(resp[r2].writes) = 2
    /\ resp[r1].writes # resp[r2].writes

\* C14: in streaming mode the head (status 200) is written before the model
\* is called and before any chunk is written, so a validated streaming
\* request ends with status 200 whether the model call succeeds or fails.
C14_HeadFirst ==
  \A r \in Reqs :
    (IsStreaming(version) /\ IsGenerate(r)) =>
      /\ ModelReached(r) => (resp[r].sent /\ resp[r].status = 200)
      /\ resp[r].writes # << >> => (resp[r].sent /\ resp[r].status = 200)
      /\ (pc[r] = "done" /\ BodySchemaOk(version, req[r].body)) =>
            (resp[r].hijacked /\ resp[r].sent /\ resp[r].status = 200)

C14_Witness ==
  \E r \in Reqs :
    /\ IsStreaming(version) /\ IsGenerate(r) /\ pc[r] = "done"
    /\ llm[r].chat \in {"openFailed", "threw"}
    /\ resp[r].status = 200

\* C15: an OPTIONS request, whatever its path, is answered 204 by the
\* onRequest hook and goes no further: no preHandler, no route handler, no
\* validation of a body and no call of the model.
C15_PreflightStopsAtHook ==
  \A r \in Reqs :
    req[r].method = "OPTIONS" =>
      /\ pc[r] \in {"onRequest", "done"}
      /\ ~ModelReached(r)
      /\ resp[r].writes = << >>
      /\ pc[r] = "onRequest" => ~resp[r].sent
      /\ pc[r] = "done" =>
            /\ resp[r].sent /\ resp[r].status = 204
            /\ resp[r].body = NoPayload
            /\ resp[r].ended = 1

C15_Witness ==
  \E r \in Reqs :
    /\ req[r].method = "OPTIONS" /\ req[r].path = "/api/generate"
    /\ pc[r] = "done"
    /\ resp[r].status = 204

\* C16: on the reply to a preflight, Access-Control-Allow-Headers is the
\* Access-Control-Request-Headers of the request when it has one and
\* "content-type, x-tokensa" otherwise, Access-Control-Allow-Methods is
\* "POST, GET, OPTIONS", and Access-Control-Allow-Origin is set, also when
\* the request has no Origin.
C16_PreflightHeaders ==
  \A r \in Reqs :
    (req[r].method = "OPTIONS" /\ resp[r].sent) =>
      /\ resp[r].wire["acah"] =
            IF req[r].acrh # Absent THEN req[r].acrh ELSE <<"content-type, x-tokensa">>
      /\ resp[r].wire["acam"] = <<"POST, GET, OPTIONS">>
      /\ resp[r].wire["acao"] # Absent
      /\ req[r].origin = Absent => resp[r].wire["acao"] = ORIGIN

C16_Witness ==
  \E r \in Reqs :
    /\ req[r].method = "OPTIONS" /\ resp[r].sent
    /\ req[r].origin = Absent
    /\ req[r].acrh = <<"authorization">>
    /\ resp[r].wire["acah"] = <<"authorization">>
    /\ resp[r].wire["acao"] = ORIGIN

\* The payload the route handler of request r hands to reply.send().
HandlerPayload(r) ==
  CASE IsHealth(r) -> HealthPayload(llm[r].list = "ok", RouteModel(version))
    [] IsGenerate(r) /\ ~BodySchemaOk(version, req[r].body) ->
         ErrorPayload("Invalid request body")
    [] IsGenerate(r) /\ BodySchemaOk(version, req[r].body) ->
         TextPayload(generateOnce(version, llm[r].fetch).text, RouteModel(version))
    [] OTHER -> ErrorPayload("Not Found")

\* The step in which the reply of request r, neither a preflight nor
\* hijacked, leaves through the onSend hook.
SendStep(r) ==
  /\ ~resp[r].sent /\ resp'[r].sent
  /\ ~resp'[r].hijacked
  /\ req[r].method # "OPTIONS"

\* C17: on a reply that is neither a preflight nor hijacked, the onSend hook
\* sets Access-Control-Allow-Origin, Access-Control-Allow-Credentials and
\* Vary: Origin only when the request has an Origin; without an Origin it
\* sets the Private-Network header alone, and the other headers and the
\* payload leave as the handler left them.
C17_OnSendFrame ==
  /\ [][\A r \in Reqs :
          SendStep(r) =>
            /\ resp'[r].wire["acapn"] = True
            /\ \A h \in {"acam", "acah"} : resp'[r].wire[h] = resp[r].hdr[h]
            /\ IF req[r].origin # Absent
               THEN /\ resp'[r].wire["acao"] = resolveAllowOrigin(req[r].origin)
                    /\ resp'[r].wire["acac"] = True
                    /\ resp'[r].wire["vary"] = <<"Origin">>
               ELSE \A h \in {"acao", "acac", "vary"} : resp'[r].wire[h] = resp[r].hdr[h]]_vars
  /\ [](\A r \in Reqs :
          (resp[r].sent /\ ~resp[r].hijacked /\ req[r].method # "OPTIONS") =>
            resp[r].body = HandlerPayload(r))

C17_Witness ==
  \E r \in Reqs :
    /\ resp[r].sent /\ ~resp[r].hijacked /\ req[r].method # "OPTIONS"
    /\ req[r].origin = Absent
    /\ resp[r].wire["acapn"] = True
    /\ resp[r].wire["acao"] = Absent /\ resp[r].wire["acac"] = Absent
    /\ resp[r].body.kind = "text"

\* The reply generateOnce reads for request r: message.content, trimmed.
RawOf(r) == Trim(IF llm[r].fetch.content.has THEN llm[r].fetch.content.val ELSE << >>)

\* The JSON objects a text contains, as pairs of positions of their braces.
ObjectsIn(text) ==
  {o \in (1..Len(text)) \X (1..Len(text)) :
     /\ o[1] < o[2] /\ text[o[1]] = "{" /\ text[o[2]] = "}"
     /\ JsonParse(SubSeq(text, o[1], o[2])).ok}

\* extractJsonObject returns the text from the first "{" to the last "}",
\* and throws when there is no "{", no "}", or the last "}" is before the
\* first "{".
FirstToLast(text) ==
  LET opens == {i \in 1..Len(text) : text[i] = "{"}
      closes == {i \in 1..Len(text) : text[i] = "}"}
      first == CHOOSE i \in opens : \A j \in opens : i <= j
      last == CHOOSE i \in closes : \A j \in closes : j <= i
      x == extractJsonObject(text)
  IN  IF opens = {} \/ closes = {} THEN ~x.ok
      ELSE IF last < first THEN ~x.ok
      ELSE x.ok /\ x.text = SubSeq(text, first, last)

\* C18 (as stated): extractJsonObject returns the text from the first "{" to
\* the last "}" and throws when there is none; and when the reply is one
\* JSON object surrounded by noise text, what it returns is that object.
C18_Original ==
  \A r \in Reqs :
    (version = "json2" /\ llm[r].fetch.kind = "ok") =>
      /\ FirstToLast(RawOf(r))
      /\ Cardinality(ObjectsIn(RawOf(r))) = 1 =>
            \A o \in ObjectsIn(RawOf(r)) :
              extractJsonObject(RawOf(r)) = Ok(SubSeq(RawOf(r), o[1], o[2]))

\* C18 (amended): extractJsonObject returns the text from the first "{" to
\* the last "}" and throws when there is none; when the reply is one JSON
\* object surrounded by noise text that has no "{" before the object and no
\* "}" after it, what it returns is that object.
C18_Amended ==
  \A r \in Reqs :
    (version = "json2" /\ llm[r].fetch.kind = "ok") =>
      /\ FirstToLast(RawOf(r))
      /\ Cardinality(ObjectsIn(RawOf(r))) = 1 =>
            \A o \in ObjectsIn(RawOf(r)) :
              (/\ \A i \in 1..(o[1] - 1) : RawOf(r)[i] # "{"
               /\ \A i \in (o[2] + 1)..Len(RawOf(r)) : RawOf(r)[i] # "}") =>
                extractJsonObject(RawOf(r)) = Ok(SubSeq(RawOf(r), o[1], o[2]))

C18_Witness ==
  \E r \in Reqs :
    /\ version = "json2" /\ llm[r].fetch.kind = "ok" /\ pc[r] = "done"
    /\ RawOf(r) # << >> /\ RawOf(r)[1] = "Voici"
    /\ Cardinality(ObjectsIn(RawOf(r))) = 1
    /\ extractJsonObject(RawOf(r)).ok
    /\ Len(extractJsonObject(RawOf(r)).text) < Len(RawOf(r))
    /\ resp[r].body.text = <<"Lu.", "\n", "\n", "Ecrit">>

\* A text without the white space before its first and after its last
\* character that is not white space.
Core(s) ==
  LET idx == {i \in 1..Len(s) : s[i] \notin Whitespace}
  IN  IF idx = {} THEN << >>
      ELSE SubSeq(s, CHOOSE i \in idx : \A j \in idx : i <= j,
                     CHOOSE i \in idx : \A j \in idx : j <= i)

\* The report made of the fields lecture and ecriture of an object: the two
\* trimmed paragraphs with one empty line between them.
ReportOf(members) ==
  Core(Field(members, "lecture").val) \o <<"\n">> \o << >> \o <<"\n">>
    \o Core(Field(members, "ecriture").val)

\* C19 (as stated): when the reply contains a JSON object with string fields
\* lecture and ecriture, generateOnce returns the two trimmed paragraphs
\* separated by one empty line, whatever else the object holds and whatever
\* text is around it.
C19_Original ==
  \A r \in Reqs :
    (version = "json2" /\ llm[r].fetch.kind = "ok") =>
      \A o \in ObjectsIn(RawOf(r)) :
        LET members == JsonParse(SubSeq(RawOf(r), o[1], o[2])).members
        IN  RapportSchemaOk(members) => resp[r].body.text = ReportOf(members)

\* C19 (amended): when the text of the reply from its first "{" to its last
\* "}" is a JSON object with string fields lecture and ecriture,
\* generateOnce returns the two trimmed paragraphs separated by one empty
\* line, whatever else the object holds and whatever text is before its
\* first "{" and after its last "}".
C19_Amended ==
  \A r \in Reqs :
    (version = "json2" /\ llm[r].fetch.kind = "ok") =>
      LET jsonText == extractJsonObject(RawOf(r))
          parsed == JsonParse(jsonText.text)
      IN  (jsonText.ok /\ parsed.ok /\ RapportSchemaOk(parsed.members)) =>
            /\ resp[r].status = 200
            /\ resp[r].body.text = ReportOf(parsed.members)

C19_Witness ==
  \E r \in Reqs :
    /\ version = "json2" /\ llm[r].fetch.kind = "ok" /\ pc[r] = "done"
    /\ \E i \in 1..Len(RawOf(r)) : RawOf(r)[i] = MemberX
    /\ RawOf(r)[1] # "{"
    /\ resp[r].body.text = <<"Lu.", "\n", "\n", "Ecrit">>

\* C20 (as stated): if opening the chat fails, the response body is exactly
\* one chunk, a message beginning "Erreur de génération:", and the response
\* is ended once.
C20_Original ==
  \A r \in Reqs :
    llm[r].chat = "openFailed" =>
      /\ Len(resp[r].writes) = 1
      /\ Head(Head(resp[r].writes)) = "Erreur de génération: "
      /\ pc[r] = "done" => resp[r].ended = 1

\* C20, the states: after a failed opening, llm.ts has written the one
\* message and the generator is about to return or the response is ended;
\* part_003 has written nothing and the response is ended.
C20_States ==
  \A r \in Reqs :
    llm[r].chat = "openFailed" =>
      /\ resp[r].status = 200
      /\ llm[r].chunks = << >>
      /\ IF version = "stream2"
         THEN /\ Len(resp[r].writes) = 1
              /\ Head(Head(resp[r].writes)) = "Erreur de génération: "
              /\ \/ pc[r] = "stream" /\ resp[r].ended = 0
                 \/ pc[r] = "done" /\ resp[r].ended = 1
         ELSE /\ resp[r].writes = << >>
              /\ pc[r] = "done" /\ resp[r].ended = 1

\* C20, the steps: after the message nothing more is written, and the only
\* step left to the exchange is the end of the response.
C20_Steps ==
  [][\A r \in Reqs :
       (llm[r].chat = "openFailed" /\ pc[r] = "stream") =>
         \/ resp'[r] = resp[r] /\ pc'[r] = "stream"
         \/ /\ pc'[r] = "done"
            /\ resp'[r] = [resp[r] EXCEPT !.ended = 1]]_vars

\* C20 (amended): if opening the chat fails, the streamGenerate of llm.ts
\* yields exactly one chunk, a message beginning "Erreur de génération:",
\* and returns, so the body is that message and the response is ended
\* normally; the earlier streamGenerate (part_003) throws instead, and the
\* response is ended with an empty body.
C20_Amended == []C20_States /\ C20_Steps

C20_Witness ==
  \E r \in Reqs :
    /\ version = "stream2"
    /\ llm[r].chat = "openFailed" /\ pc[r] = "done"
    /\ Len(resp[r].writes) = 1
    /\ Head(Head(resp[r].writes)) = "Erreur de génération: "
    /\ resp[r].ended = 1

\* The prompt built for request r is there.
Built(r) == version \in PromptVersions /\ pc[r] = "done"

\* niveau is provided and non-empty.
NiveauGiven(input) == input.niveau.t = "string" /\ input.niveau.s # ""

\* The position of the patient-data line: the line after "Données patient:".
DataLineAt(prompt) ==
  1 + CHOOSE k \in 1..Len(prompt) : prompt[k] = <<"Données patient:">>

\* A prompt without its patient-data line.
RestOf(prompt) == [prompt EXCEPT ![DataLineAt(prompt)] = << >>]

\* The same input with no niveau.
WithoutNiveau(input) == [input EXCEPT !.niveau = Undef]

\* C21, the patient-data line: it contains ", Niveau: <niveau>" exactly when
\* niveau is provided and non-empty, and is exactly the age otherwise.
C21_DataLine ==
  \A r \in Reqs :
    Built(r) =>
      LET input == req[r].body
          line == llm[r].prompt[DataLineAt(llm[r].prompt)]
          age == ToString(input.age.n)
      IN  /\ (\E j \in 1..Len(line) : line[j] = ", Niveau: ") <=> NiveauGiven(input)
          /\ NiveauGiven(input) => line = <<"Âge: ", age, ", Niveau: ", input.niveau.s>>
          /\ ~NiveauGiven(input) => line = <<"Âge: ", age>>

\* C21 (as stated): the patient-data line names the niveau exactly when it
\* is provided and non-empty, and the rest of the prompt is the same with
\* and without niveau.
C21_Original ==
  /\ C21_DataLine
  /\ \A r \in Reqs :
       Built(r) =>
         RestOf(llm[r].prompt) = RestOf(PromptOf(version, WithoutNiveau(req[r].body)))

\* C21 (amended): the patient-data line names the niveau exactly when it is
\* provided and non-empty; in the revision of part_000 the rest of the
\* prompt is the same with and without niveau; in the revision with the
\* TOON block the data handed to the encoder has the key niveau in the same
\* case, so the block has one more line, and the rest is the same.
C21_Amended ==
  /\ C21_DataLine
  /\ \A r \in Reqs :
       Built(r) =>
         LET input == req[r].body
             prompt == llm[r].prompt
             other == PromptOf(version, WithoutNiveau(input))
             extra == {k \in 1..Len(prompt) : prompt[k] = <<"  niveau: ", input.niveau.s>>}
         IN  IF version = "toon" /\ NiveauGiven(input)
             THEN /\ Cardinality(extra) = 1
                  /\ RestOf(SelectSeq(prompt, LAMBDA l : l # <<"  niveau: ", input.niveau.s>>))
                       = RestOf(other)
             ELSE RestOf(prompt) = RestOf(other)

C21_Witness ==
  \E r \in Reqs :
    /\ Built(r) /\ version = "toon"
    /\ req[r].body.niveau = Str("CE1")
    /\ llm[r].prompt[DataLineAt(llm[r].prompt)] = <<"Âge: ", "10", ", Niveau: ", "CE1">>
    /\ \E k \in 1..Len(llm[r].prompt) : llm[r].prompt[k] = <<"  niveau: ", "CE1">>

=============================================================================
